---- MODULE Spec2Model ----
(***************************************************************************)
(* Cluster Notes (src/src/main.rs): the note store of NotesApp.            *)
(*                                                                         *)
(* Text is a sequence of one-character strings; a date ("2026-11-04"), a   *)
(* time of day, the directory name and the ".md" extension are single      *)
(* tokens of such a sequence.  The notes directory is a function from the  *)
(* paths of the files that exist to their contents.                        *)
(***************************************************************************)
EXTENDS Integers, Sequences, FiniteSets, TLC

(***************************************************************************)
(* Bounds of the model.                                                    *)
(***************************************************************************)
\* the clock takes the values 1..MaxClock
MaxClock == 2
\* a save that creates a note needs fewer than MaxNotes live notes
MaxNotes == 2
\* a save that creates a note needs a sequence number of at most MaxSeq
MaxSeq == 2
\* the file system fails an operation only while fewer than MaxFailures have failed
MaxFailures == 1

(***************************************************************************)
(* Program constants.                                                      *)
(***************************************************************************)
NOTES_DIR == "notes"
\* i32::MAX, the largest value seq.parse::<i32>() accepts
I32Max == 2147483647
\* the {:03} of format!("{date}-{:03}", ..)
SeqWidth == 3

(***************************************************************************)
(* Characters.  Alphabet lists every character and token of the model in   *)
(* byte order (the order of str::cmp); "U+00E9" is the one character that  *)
(* is not ASCII, a letter.                                                 *)
(***************************************************************************)
Alphabet ==
    << "\n", " ", "!", "#", "+", ",", "-", ".md", "/",
       "0", "00:00:00+00:00", "1", "12:00:00+00:00", "18:00:00+00:00", "2",
       "2026-11-03", "2026-11-04", "2026-11-05", "2026-11-06",
       "3", "4", "5", "6", "7", "8", "9", ":",
       "A", "B", "T", "[", "]", "a", "b", "e", "g", "n", "notes", "o", "s", "t", "x",
       "U+00E9" >>

Ord(c) == CHOOSE i \in 1..Len(Alphabet) : Alphabet[i] = c

Digits == << "0", "1", "2", "3", "4", "5", "6", "7", "8", "9" >>

IsDigit(c) == \E i \in 1..10 : Digits[i] = c

DigitVal(c) == (CHOOSE i \in 1..10 : Digits[i] = c) - 1

\* char::is_ascii_alphanumeric
IsAsciiAlphanumeric(c) == IsDigit(c) \/ c \in {"A", "B", "T", "a", "b", "e", "g", "n", "o", "s", "t", "x"}

\* char::to_ascii_lowercase / char::to_lowercase
ToLowercase(c) ==
    CASE c = "A" -> "a"
      [] c = "B" -> "b"
      [] c = "T" -> "t"
      [] OTHER -> c

\* char::is_whitespace
IsWhitespace(c) == c \in {" ", "\n"}

(***************************************************************************)
(* Strings.                                                                *)
(***************************************************************************)
StartsWith(s, p) == Len(s) >= Len(p) /\ SubSeq(s, 1, Len(p)) = p

EndsWith(s, p) == Len(s) >= Len(p) /\ SubSeq(s, Len(s) - Len(p) + 1, Len(s)) = p

DropFirst(s, n) == SubSeq(s, n + 1, Len(s))

RECURSIVE TrimStart(_)
TrimStart(s) ==
    IF s # <<>> /\ IsWhitespace(Head(s)) THEN TrimStart(Tail(s)) ELSE s

RECURSIVE TrimEnd(_)
TrimEnd(s) ==
    IF s # <<>> /\ IsWhitespace(s[Len(s)]) THEN TrimEnd(SubSeq(s, 1, Len(s) - 1)) ELSE s

\* str::trim
Trim(s) == TrimEnd(TrimStart(s))

\* str::to_lowercase
ToLowercaseStr(s) == [i \in 1..Len(s) |-> ToLowercase(s[i])]

\* the index of the first c in s, 0 when there is none
IndexOf(s, c) ==
    IF \E i \in 1..Len(s) : s[i] = c
    THEN CHOOSE i \in 1..Len(s) : s[i] = c /\ \A j \in 1..(i - 1) : s[j] # c
    ELSE 0

\* the index of the last c in s, 0 when there is none
LastIndexOf(s, c) ==
    IF \E i \in 1..Len(s) : s[i] = c
    THEN CHOOSE i \in 1..Len(s) : s[i] = c /\ \A j \in (i + 1)..Len(s) : s[j] # c
    ELSE 0

\* str::split(c): the pieces between the occurrences of c, one more than there are
RECURSIVE Split(_, _)
Split(s, c) ==
    LET i == IndexOf(s, c)
    IN  IF i = 0 THEN << s >>
        ELSE << SubSeq(s, 1, i - 1) >> \o Split(DropFirst(s, i), c)

\* str::lines: split at "\n", a final empty piece dropped
Lines(s) ==
    LET pieces == Split(s, "\n")
    IN  IF pieces[Len(pieces)] = <<>> THEN SubSeq(pieces, 1, Len(pieces) - 1) ELSE pieces

\* str::cmp gives Less: lexicographic in byte order
RECURSIVE StrLess(_, _)
StrLess(a, b) ==
    IF b = <<>> THEN FALSE
    ELSE IF a = <<>> THEN TRUE
    ELSE IF Head(a) # Head(b) THEN Ord(Head(a)) < Ord(Head(b))
    ELSE StrLess(Tail(a), Tail(b))

\* the elements of a finite set of strings in ascending order (BTreeSet iteration)
RECURSIVE SortedSeq(_)
SortedSeq(S) ==
    IF S = {} THEN <<>>
    ELSE LET m == CHOOSE x \in S : \A y \in S \ {x} : StrLess(x, y)
         IN  << m >> \o SortedSeq(S \ {m})

(***************************************************************************)
(* parse_tags, parse_title_and_tags, slugify.                              *)
(***************************************************************************)
StripPrefix(s, c) == IF s # <<>> /\ Head(s) = c THEN Tail(s) ELSE s

StripSuffix(s, c) == IF s # <<>> /\ s[Len(s)] = c THEN SubSeq(s, 1, Len(s) - 1) ELSE s

\* parse_tags collecting into a Vec: the entries as they come
parse_tags_as_listed(tags) ==
    LET cleaned == StripSuffix(StripPrefix(Trim(tags), "["), "]")
        pieces  == Split(cleaned, ",")
        trimmed == [i \in 1..Len(pieces) |-> Trim(pieces[i])]
    IN  SelectSeq(trimmed, LAMBDA piece : piece # <<>>)

parse_tags(tags) ==
    LET cleaned == StripSuffix(StripPrefix(Trim(tags), "["), "]")
        pieces  == Split(cleaned, ",")
        set     == {Trim(pieces[i]) : i \in 1..Len(pieces)} \ {<<>>}
    IN  SortedSeq(set)

\* TitleTagsStep taking a line that starts with "#" alone for a title line
TitleTagsStepNoSpace(acc, line) ==
    LET trimmed == Trim(line)
        title == IF acc.title = <<>> /\ StartsWith(trimmed, <<"#">>)
                 THEN Trim(DropFirst(trimmed, 1))
                 ELSE acc.title
        tags  == IF StartsWith(ToLowercaseStr(trimmed), <<"t", "a", "g", "s", ":">>)
                 THEN parse_tags(Trim(DropFirst(trimmed, 5)))
                 ELSE acc.tags
    IN  [title |-> title, tags |-> tags]

\* one turn of the loop over body.lines(): acc is (title, tags) so far
TitleTagsStep(acc, line) ==
    LET trimmed == Trim(line)
        title == IF acc.title = <<>> /\ StartsWith(trimmed, <<"#", " ">>)
                 THEN Trim(DropFirst(trimmed, 2))
                 ELSE acc.title
        tags  == IF StartsWith(ToLowercaseStr(trimmed), <<"t", "a", "g", "s", ":">>)
                 THEN parse_tags(Trim(DropFirst(trimmed, 5)))
                 ELSE acc.tags
    IN  [title |-> title, tags |-> tags]

RECURSIVE TitleTagsLoop(_, _)
TitleTagsLoop(acc, lines) ==
    IF lines = <<>> THEN acc
    ELSE TitleTagsLoop(TitleTagsStep(acc, Head(lines)), Tail(lines))

parse_title_and_tags(body) ==
    TitleTagsLoop([title |-> <<>>, tags |-> <<>>], Lines(body))

\* SlugLoop without prev_dash: a '-' for every character that is not alphanumeric
RECURSIVE SlugLoopEveryDash(_, _)
SlugLoopEveryDash(acc, chars) ==
    IF chars = <<>> THEN acc.slug
    ELSE LET ch == Head(chars)
             next == IF IsAsciiAlphanumeric(ch)
                     THEN [slug |-> Append(acc.slug, ToLowercase(ch)), prev_dash |-> FALSE]
                     ELSE [slug |-> Append(acc.slug, "-"), prev_dash |-> TRUE]
         IN  SlugLoopEveryDash(next, Tail(chars))

\* the loop of slugify over title.chars(): acc is (slug, prev_dash)
RECURSIVE SlugLoop(_, _)
SlugLoop(acc, chars) ==
    IF chars = <<>> THEN acc.slug
    ELSE LET ch == Head(chars)
             next == IF IsAsciiAlphanumeric(ch)
                     THEN [slug |-> Append(acc.slug, ToLowercase(ch)), prev_dash |-> FALSE]
                     ELSE IF ~acc.prev_dash
                     THEN [slug |-> Append(acc.slug, "-"), prev_dash |-> TRUE]
                     ELSE acc
         IN  SlugLoop(next, Tail(chars))

RECURSIVE StripLeadingDashes(_)
StripLeadingDashes(s) ==
    IF s # <<>> /\ Head(s) = "-" THEN StripLeadingDashes(Tail(s)) ELSE s

RECURSIVE StripTrailingDashes(_)
StripTrailingDashes(s) ==
    IF s # <<>> /\ s[Len(s)] = "-"
    THEN StripTrailingDashes(SubSeq(s, 1, Len(s) - 1))
    ELSE s

slugify(title) ==
    LET slug == StripTrailingDashes(StripLeadingDashes(
                    SlugLoop([slug |-> <<>>, prev_dash |-> FALSE], title)))
    IN  IF slug = <<>> THEN <<"n", "o", "t", "e">> ELSE slug

(***************************************************************************)
(* Time.  The clock is a tick; TicksPerDay ticks share a date.             *)
(***************************************************************************)
TicksPerDay == 1

DayNames == << "2026-11-04", "2026-11-05", "2026-11-06" >>

TodNames == << "12:00:00+00:00", "18:00:00+00:00", "00:00:00+00:00" >>

\* now.format("%Y-%m-%d")
FormatDate(now) == << DayNames[((now - 1) \div TicksPerDay) + 1] >>

\* now.to_rfc3339()
to_rfc3339(now) ==
    FormatDate(now) \o << "T", TodNames[((now - 1) % TicksPerDay) + 1] >>

\* created_at.split('T').next(): a split always has a first piece
DatePart(created_at) == Split(created_at, "T")[1]

IsDateToken(c) == c = "2026-11-03" \/ \E i \in 1..Len(DayNames) : DayNames[i] = c

IsTodToken(c) == \E i \in 1..Len(TodNames) : TodNames[i] = c

\* parse_datetime(value).is_some()
ParsesAsDatetime(value) ==
    Len(value) = 3 /\ IsDateToken(value[1]) /\ value[2] = "T" /\ IsTodToken(value[3])

\* the instant of a value that parses: same offset, so date then time of day
Instant(value) == Ord(value[1]) * Len(Alphabet) + Ord(value[3])

(***************************************************************************)
(* Ids: "<date>-<seq>", seq formatted {:03} and read back by parse::<i32>. *)
(***************************************************************************)
RECURSIVE DecimalDigits(_)
DecimalDigits(n) ==
    IF n < 10 THEN << Digits[n + 1] >>
    ELSE Append(DecimalDigits(n \div 10), Digits[(n % 10) + 1])

RECURSIVE PadZeros(_, _)
PadZeros(s, width) == IF Len(s) >= width THEN s ELSE PadZeros(<<"0">> \o s, width)

\* format!("{:03}", n) for n >= 0
FormatSeq(n) == PadZeros(DecimalDigits(n), SeqWidth)

\* the digits of s read from the left with acc so far; -1 is Err (a character
\* that is no digit, or a value above i32::MAX)
RECURSIVE ParseDigits(_, _)
ParseDigits(s, acc) ==
    IF s = <<>> THEN acc
    ELSE IF ~IsDigit(Head(s)) THEN -1
    ELSE LET d == DigitVal(Head(s))
         IN  IF acc > (I32Max - d) \div 10 THEN -1
             ELSE ParseDigits(Tail(s), acc * 10 + d)

\* seq.parse::<i32>() of a text without '-': the value, or -1 for Err
ParseI32(s) ==
    LET digits == StripPrefix(s, "+")
    IN  IF digits = <<>> THEN -1 ELSE ParseDigits(digits, 0)

\* note.meta.id.rsplit_once('-'): <<>> for None, else <<prefix, seq>>
RSplitOnceDash(id) ==
    LET i == LastIndexOf(id, "-")
    IN  IF i = 0 THEN <<>> ELSE << SubSeq(id, 1, i - 1), DropFirst(id, i) >>

\* the loop of next_id_for_date over self.notes
RECURSIVE MaxSeqLoop(_, _, _)
MaxSeqLoop(notes, date, max_seq) ==
    IF notes = <<>> THEN max_seq
    ELSE LET parts == RSplitOnceDash(Head(notes).meta.id)
             seq_num == IF parts # <<>> /\ parts[1] = date THEN ParseI32(parts[2]) ELSE -1
         IN  MaxSeqLoop(Tail(notes), date, IF seq_num > max_seq THEN seq_num ELSE max_seq)

\* max_seq + 1 of next_id_for_date; max_seq stays below i32::MAX here, as no
\* id of the model parses to i32::MAX
NextSeq(ns, now) == MaxSeqLoop(ns, FormatDate(now), 0) + 1

next_id_for_date(ns, now) == FormatDate(now) \o <<"-">> \o FormatSeq(NextSeq(ns, now))

(***************************************************************************)
(* Files.  A file's content is the text "---\n" frontmatter "---\n" rest;  *)
(* the frontmatter is kept as the NoteFrontmatter it serializes, and a     *)
(* content that parse_note_file rejects has decodes = FALSE.               *)
(***************************************************************************)
NoMeta == [id |-> <<>>, title |-> <<>>, tags |-> <<>>, created_at |-> <<>>, updated_at |-> <<>>]

\* a file that split_frontmatter or serde_yaml rejects; also a file cut short
Undecodable == [decodes |-> FALSE, frontmatter |-> NoMeta, rest |-> <<>>]

\* the contents write_note_file formats: "---\n{frontmatter}---\n\n{body}\n"
NoteFileContents(meta, body) ==
    [decodes |-> TRUE, frontmatter |-> meta, rest |-> <<"\n">> \o body \o <<"\n">>]

\* fs::write(path, contents) that succeeds
WriteFile(dir, path, contents) ==
    [p \in (DOMAIN dir) \cup {path} |-> IF p = path THEN contents ELSE dir[p]]

\* fs::remove_file(path) that succeeds
RemoveFile(dir, path) == [p \in (DOMAIN dir) \ {path} |-> dir[p]]

\* RenameFile copying the file and leaving the one at from
RenameFileKeepsSource(dir, from, to) ==
    [p \in (DOMAIN dir) \cup {to} |-> IF p = to THEN dir[from] ELSE dir[p]]

\* fs::rename(from, to) that succeeds: the file moves, replacing any file at to
RenameFile(dir, from, to) ==
    [p \in ((DOMAIN dir) \ {from}) \cup {to} |-> IF p = to THEN dir[from] ELSE dir[p]]

\* Path::new(NOTES_DIR).join(format!("{date}-{slug}.md"))
JoinPath(date, slug) == << NOTES_DIR, "/" >> \o date \o << "-" >> \o slug \o << ".md" >>

\* path.extension() == Some("md")
HasMdExtension(path) == path # <<>> /\ path[Len(path)] = ".md"

\* NewPath taking the date of updated_at
NewPathByUpdate(meta) == JoinPath(DatePart(meta.updated_at), slugify(meta.title))

\* the location save_current computes for a note with this frontmatter
NewPath(meta) == JoinPath(DatePart(meta.created_at), slugify(meta.title))

(***************************************************************************)
(* The state of NotesApp and of the notes directory.                       *)
(* A note is [meta, body, file_path, orig]: orig records the id and        *)
(* created_at the note got when it was created or loaded; no operation     *)
(* reads it.                                                               *)
(***************************************************************************)
VARIABLES
    notes,            \* Vec<Note>
    selected_index,   \* Option<usize>: None, or a position 1..Len(notes)
    draft,            \* draft.body
    sort_mode,        \* SortMode
    errors,           \* the load diagnostics
    disk,             \* the files that exist: path -> content
    clock,            \* what Local::now() returns
    last,             \* history: the last save or delete and how it ended
    usedIds,          \* history, kept by SpecReliable: every id a note has carried
    failures          \* history: the operations that failed so far, up to MaxFailures

vars ==
    << notes, selected_index, draft, sort_mode, errors, disk, clock,
       last, usedIds, failures >>

None == 0

\* what the user can type into the editor
Drafts ==
    { << "#", "B" >>,
      << "#", " ", "A" >>,
      << "#", " ", "a", "!", "\n", "T", "a", "g", "s", ":", " ", "[", "b", ",", " ", "a", ",", "b", "]" >> }

(***************************************************************************)
(* sort_notes, select_note, clear_selection.                               *)
(***************************************************************************)
\* the comparator of SortMode::Recent returns Less
RecentBefore(a, b) ==
    IF ParsesAsDatetime(a.meta.created_at) /\ ParsesAsDatetime(b.meta.created_at)
    THEN Instant(b.meta.created_at) < Instant(a.meta.created_at)
    ELSE StrLess(b.meta.created_at, a.meta.created_at)

\* the comparator of SortMode::Title returns Less
TitleBefore(a, b) == StrLess(a.meta.title, b.meta.title)

Before(mode, a, b) == IF mode = "Recent" THEN RecentBefore(a, b) ELSE TitleBefore(a, b)

\* x put before the first element it compares Less to: a stable insertion
RECURSIVE InsertSorted(_, _, _)
InsertSorted(mode, x, sorted) ==
    IF sorted = <<>> THEN << x >>
    ELSE IF Before(mode, x, Head(sorted)) THEN << x >> \o sorted
    ELSE << Head(sorted) >> \o InsertSorted(mode, x, Tail(sorted))

RECURSIVE SortFrom(_, _, _)
SortFrom(mode, sorted, rest) ==
    IF rest = <<>> THEN sorted
    ELSE SortFrom(mode, InsertSorted(mode, Head(rest), sorted), Tail(rest))

\* Vec::sort_by (stable) under the mode's comparator
sort_notes(ns, mode) == SortFrom(mode, <<>>, ns)

\* select_note taking the position after index
select_note_next(ns, index, body) ==
    IF index > Len(ns)
    THEN [selected_index |-> None, draft |-> body]
    ELSE [selected_index |-> index + 1, draft |-> ns[index].body]

\* select_note(index): the new (selected_index, draft.body)
select_note(ns, index, body) ==
    IF index > Len(ns)
    THEN [selected_index |-> None, draft |-> body]
    ELSE [selected_index |-> index, draft |-> ns[index].body]

\* the position of the first note with this title: 0 when there is none
PositionByTitle(ns, title) ==
    IF \E i \in 1..Len(ns) : ns[i].meta.title = title
    THEN CHOOSE i \in 1..Len(ns) :
            ns[i].meta.title = title /\ \A j \in 1..(i - 1) : ns[j].meta.title # title
    ELSE 0

\* RemoveAt one position too far
RemoveAtNext(ns, index) == SubSeq(ns, 1, index) \o SubSeq(ns, index + 2, Len(ns))

\* Vec::remove(index)
RemoveAt(ns, index) == SubSeq(ns, 1, index - 1) \o SubSeq(ns, index + 1, Len(ns))

(***************************************************************************)
(* load.                                                                   *)
(***************************************************************************)
\* parse_note_file of a file that decodes
parse_note_file(dir, path) ==
    [meta |-> dir[path].frontmatter,
     body |-> TrimStart(dir[path].rest),
     file_path |-> path,
     orig |-> [id |-> dir[path].frontmatter.id,
               created_at |-> dir[path].frontmatter.created_at]]

\* an entry of read_dir that is an Err: entries.flatten() passes it over
EntryErr == << >>

\* the loop of load over the directory's entries: acc is (notes, errors)
RECURSIVE LoadLoop(_, _, _)
LoadLoop(dir, entries, acc) ==
    IF entries = <<>> THEN acc
    ELSE LET path == Head(entries)
             next == IF path = EntryErr THEN acc
                     ELSE IF ~HasMdExtension(path) THEN acc
                     ELSE IF dir[path].decodes
                     THEN [acc EXCEPT !.notes = Append(@, parse_note_file(dir, path))]
                     ELSE [acc EXCEPT !.errors =
                              Append(@, [what |-> "Failed to load note", path |-> path])]
         IN  LoadLoop(dir, Tail(entries), next)

\* NotesApp::load(): outcome says whether create_dir_all and read_dir succeed,
\* entries is what read_dir lists, in its order
load(dir, outcome, entries) ==
    LET empty == [notes |-> <<>>, selected_index |-> None, draft |-> <<>>,
                  sort_mode |-> "Recent", errors |-> <<>>]
    IN  IF outcome = "create_dir_fails"
        THEN [empty EXCEPT !.errors =
                 << [what |-> "Failed to create notes directory", path |-> <<>>] >>]
        ELSE IF outcome = "read_dir_fails"
        THEN [empty EXCEPT !.errors =
                 << [what |-> "Failed to read notes directory", path |-> <<>>] >>]
        ELSE LET loaded == LoadLoop(dir, entries, [notes |-> <<>>, errors |-> <<>>])
                 sorted == sort_notes(loaded.notes, empty.sort_mode)
                 sel    == IF sorted # <<>> THEN select_note(sorted, 1, empty.draft)
                           ELSE [selected_index |-> None, draft |-> empty.draft]
             IN  [empty EXCEPT !.notes = sorted, !.errors = loaded.errors,
                               !.selected_index = sel.selected_index,
                               !.draft = sel.draft]

(***************************************************************************)
(* The notes directories the program may start on.                         *)
(***************************************************************************)
EmptyDir == [p \in {} |-> Undecodable]

\* a note of today whose id ends in a number above i32::MAX
BigPath == << NOTES_DIR, "/", "2026-11-04", "-", "b", ".md" >>

BigFile ==
    NoteFileContents(
        [id |-> << "2026-11-04", "-", "2", "1", "4", "7", "4", "8", "3", "6", "4", "8" >>,
         title |-> << "B" >>,
         tags |-> <<>>,
         created_at |-> << "2026-11-04", "T", "00:00:00+00:00" >>,
         updated_at |-> << "2026-11-04", "T", "00:00:00+00:00" >>],
        << "#", " ", "B" >>)

\* a .md file without frontmatter, and a file that is no .md
JunkPath == << NOTES_DIR, "/", "x", ".md" >>

OtherPath == << NOTES_DIR, "/", "x" >>

MixedDir ==
    WriteFile(WriteFile(WriteFile(EmptyDir, BigPath, BigFile), JunkPath, Undecodable),
              OtherPath, Undecodable)

\* a directory, and whether create_dir_all and read_dir succeed on it;
\* with "entry_fails" they do and one entry of the listing is an Err
Starts ==
    { << EmptyDir, "ok" >>,
      << MixedDir, "ok" >>,
      << EmptyDir, "create_dir_fails" >>,
      << MixedDir, "read_dir_fails" >>,
      << MixedDir, "entry_fails" >> }

\* the orders in which read_dir may list a directory
Listings(dir) ==
    LET n == Cardinality(DOMAIN dir)
    IN  { l \in [1..n -> DOMAIN dir] : \A i, j \in 1..n : l[i] = l[j] => i = j }

\* what read_dir may yield on a directory: a listing, one entry an Err or none
Listed(dir, outcome) ==
    IF outcome = "entry_fails"
    THEN { [l EXCEPT ![k] = EntryErr] : l \in Listings(dir), k \in 1..Cardinality(DOMAIN dir) }
    ELSE Listings(dir)

(***************************************************************************)
(* History.                                                                *)
(***************************************************************************)
\* last.op is "save" or "delete" from such an operation until the next edit,
\* selection or New Note, and "none" otherwise.  last.result is how the
\* operation ended (the status line it set); selected, whether a note was
\* selected when it began; renamed, whether it renamed the file; new_id, the id
\* a save gave to the note it created; again, whether it is a save that directly
\* follows a successful save of a selected note.
Plain ==
    [op |-> "none", result |-> "ok", selected |-> FALSE, renamed |-> FALSE,
     new_id |-> <<>>, again |-> FALSE]

Recorded(op, result, renamed, new_id) ==
    [op |-> op, result |-> result, selected |-> selected_index # None,
     renamed |-> renamed, new_id |-> new_id,
     again |-> op = "save" /\ last.op = "save" /\ last.result = "ok" /\ last.selected]

\* one more failed operation
Failed == IF failures < MaxFailures THEN failures + 1 ELSE failures

IdsOf(ns) == { ns[i].meta.id : i \in 1..Len(ns) }

(***************************************************************************)
(* Init: the state NotesApp::load() returns.                               *)
(***************************************************************************)
Init ==
    \E start \in Starts :
      \E entries \in Listed(start[1], start[2]) :
        LET dir == start[1]
            app == load(dir, start[2], entries)
        IN  /\ notes = app.notes
            /\ selected_index = app.selected_index
            /\ draft = app.draft
            /\ sort_mode = app.sort_mode
            /\ errors = app.errors
            /\ disk = dir
            /\ clock = 1
            /\ last = Plain
            /\ usedIds = IdsOf(app.notes)
            /\ failures = IF start[2] = "ok" THEN 0 ELSE 1

(***************************************************************************)
(* The editor and the note selector.                                       *)
(***************************************************************************)
\* the user edits the text (TextEdit::multiline(&mut self.draft.body))
EditDraft(text) ==
    /\ draft' = text
    /\ last' = Plain
    /\ UNCHANGED << notes, selected_index, sort_mode, errors, disk, clock,
                    usedIds, failures >>

\* the user picks a note in the selector
SelectNote(index) ==
    LET sel == select_note(notes, index, draft)
    IN  /\ selected_index' = sel.selected_index
        /\ draft' = sel.draft
        /\ last' = Plain
        /\ UNCHANGED << notes, sort_mode, errors, disk, clock, usedIds, failures >>

\* "New Note": clear_selection
NewNote ==
    /\ selected_index' = None
    /\ draft' = <<>>
    /\ last' = Plain
    /\ UNCHANGED << notes, sort_mode, errors, disk, clock, usedIds, failures >>

\* time passes
Tick ==
    /\ clock < MaxClock
    /\ clock' = clock + 1
    /\ UNCHANGED << notes, selected_index, draft, sort_mode, errors, disk,
                    last, usedIds, failures >>

(***************************************************************************)
(* save_current.                                                           *)
(***************************************************************************)
\* what the file system may do to a save: a write that fails leaves the file as
\* it was, or cut short
SaveOutcomes == { "ok", "rename_fails", "write_fails", "write_cut_short" }

\* what the file system may do to a delete
DeleteOutcomes == { "ok", "remove_fails" }

\* UpdateExisting refreshing created_at with updated_at
UpdateExistingCreatedToo(ns, index, title, tags, now, body) ==
    [ns EXCEPT ![index].meta.title = title,
               ![index].meta.tags = tags,
               ![index].meta.created_at = now,
               ![index].meta.updated_at = now,
               ![index].body = body]

\* the branch of a selected note: title, tags, updated_at and body are assigned
\* to self.notes[index] before anything is written
UpdateExisting(ns, index, title, tags, now, body) ==
    [ns EXCEPT ![index].meta.title = title,
               ![index].meta.tags = tags,
               ![index].meta.updated_at = now,
               ![index].body = body]

\* the frontmatter of a new note
NewFrontmatter(id, title, tags, now) ==
    [id |-> id, title |-> title, tags |-> tags, created_at |-> now, updated_at |-> now]

\* the end of save_current for a selected note
StoreExisting(ns, index, meta, body, new_path) ==
    [ns EXCEPT ![index].meta = meta, ![index].body = body, ![index].file_path = new_path]

\* StoreNew without the sort_notes
StoreNewUnsorted(ns, mode, meta, body, new_path) ==
    Append(ns, [meta |-> meta, body |-> body, file_path |-> new_path,
                orig |-> [id |-> meta.id, created_at |-> meta.created_at]])

\* the end of save_current for a new note: push, then sort_notes
StoreNew(ns, mode, meta, body, new_path) ==
    sort_notes(
        Append(ns, [meta |-> meta, body |-> body, file_path |-> new_path,
                    orig |-> [id |-> meta.id, created_at |-> meta.created_at]]),
        mode)

\* io is what the file system does; keep says whether usedIds is kept
save_current(io, keep) ==
    LET parsed    == parse_title_and_tags(draft)
        title     == parsed.title
        tags      == parsed.tags
        now       == to_rfc3339(clock)
        selected  == selected_index # None
        updated   == IF selected
                     THEN UpdateExisting(notes, selected_index, title, tags, now, draft)
                     ELSE notes
        meta      == IF selected
                     THEN updated[selected_index].meta
                     ELSE NewFrontmatter(next_id_for_date(notes, clock), title, tags, now)
        body      == draft
        file_path == IF selected THEN updated[selected_index].file_path ELSE <<>>
        new_path  == NewPath(meta)
        renames   == file_path # <<>> /\ file_path # new_path
        rename_err == renames /\ (io = "rename_fails" \/ file_path \notin DOMAIN disk)
        renamed   == IF renames THEN RenameFile(disk, file_path, new_path) ELSE disk
        write_err == io \in { "write_fails", "write_cut_short" }
        stored    == StoreNew(updated, sort_mode, meta, body, new_path)
        sel       == select_note(stored, PositionByTitle(stored, title), draft)
    IN  IF title = <<>>
        THEN /\ io = "ok"
             /\ last' = Recorded("save", "empty_title", FALSE, <<>>)
             /\ UNCHANGED << notes, selected_index, draft, sort_mode, errors, disk,
                             clock, usedIds, failures >>
        ELSE /\ selected \/ (Len(notes) < MaxNotes /\ NextSeq(notes, clock) <= MaxSeq)
             /\ io = "ok" \/ failures < MaxFailures
             /\ io = "rename_fails" => renames
             /\ IF rename_err
                THEN /\ notes' = updated
                     /\ last' = Recorded("save", "rename_failed", FALSE, <<>>)
                     /\ failures' = Failed
                     /\ UNCHANGED << selected_index, draft, disk, usedIds >>
                ELSE IF write_err
                THEN /\ notes' = updated
                     /\ disk' = IF io = "write_cut_short"
                                THEN WriteFile(renamed, new_path, Undecodable)
                                ELSE renamed
                     /\ last' = Recorded("save", "write_failed", renames, <<>>)
                     /\ failures' = Failed
                     /\ UNCHANGED << selected_index, draft, usedIds >>
                ELSE /\ disk' = WriteFile(renamed, new_path, NoteFileContents(meta, body))
                     /\ IF selected
                        THEN /\ notes' = StoreExisting(updated, selected_index, meta,
                                                       body, new_path)
                             /\ last' = Recorded("save", "ok", renames, <<>>)
                             /\ UNCHANGED << selected_index, draft, usedIds >>
                        ELSE /\ notes' = stored
                             /\ selected_index' = sel.selected_index
                             /\ draft' = sel.draft
                             /\ last' = Recorded("save", "ok", renames, meta.id)
                             /\ usedIds' = IF keep THEN usedIds \cup { meta.id }
                                           ELSE usedIds
                     /\ UNCHANGED failures
             /\ UNCHANGED << sort_mode, errors, clock >>

(***************************************************************************)
(* delete_current.                                                         *)
(***************************************************************************)
delete_current(io) ==
    IF selected_index = None
    THEN /\ io = "ok"
         /\ last' = Recorded("delete", "no_selection", FALSE, <<>>)
         /\ UNCHANGED << notes, selected_index, draft, sort_mode, errors, disk, clock,
                         usedIds, failures >>
    ELSE LET note == notes[selected_index]
             remove_err == io = "remove_fails" \/ note.file_path \notin DOMAIN disk
         IN  IF remove_err
             THEN /\ io = "ok" \/ failures < MaxFailures
                  /\ last' = Recorded("delete", "remove_failed", FALSE, <<>>)
                  /\ failures' = Failed
                  /\ UNCHANGED << notes, selected_index, draft, sort_mode, errors, disk,
                                  clock, usedIds >>
             ELSE /\ disk' = RemoveFile(disk, note.file_path)
                  /\ notes' = RemoveAt(notes, selected_index)
                  /\ selected_index' = None
                  /\ draft' = <<>>
                  /\ last' = Recorded("delete", "ok", FALSE, <<>>)
                  /\ UNCHANGED << sort_mode, errors, clock, usedIds, failures >>

(***************************************************************************)
(* The specifications: the handlers of NotesApp::update, one per frame.    *)
(* Spec lets the file system fail; SpecReliable is the program on a file   *)
(* system that fails nothing it can do, and keeps usedIds.                 *)
(***************************************************************************)
Next ==
    \/ \E text \in Drafts : EditDraft(text)
    \/ \E index \in 1..Len(notes) : SelectNote(index)
    \/ NewNote
    \/ \E io \in SaveOutcomes : save_current(io, FALSE)
    \/ \E io \in DeleteOutcomes : delete_current(io)
    \/ Tick

Spec == Init /\ [][Next]_vars

NextReliable ==
    \/ \E text \in Drafts : EditDraft(text)
    \/ \E index \in 1..Len(notes) : SelectNote(index)
    \/ NewNote
    \/ save_current("ok", TRUE)
    \/ delete_current("ok")
    \/ Tick

SpecReliable == Init /\ [][NextReliable]_vars

(***************************************************************************)
(* The claims.                                                             *)
(***************************************************************************)
\* a step of save_current, of delete_current: every handler but Tick sets last
SaveStep == last'.op = "save" /\ clock' = clock

DeleteStep == last'.op = "delete" /\ clock' = clock

\* a step of save_current that creates a note
CreateStep == SaveStep /\ last'.new_id # <<>>

\* some line of the text, trimmed, starts with "# "
HasTitleLine(text) ==
    \E k \in 1..Len(Lines(text)) : StartsWith(Trim(Lines(text)[k]), << "#", " " >>)

\* the title the draft asks for
DraftTitle == parse_title_and_tags(draft).title

\* the note is live and its file is there, holding the note's id
HasItsFile(note) ==
    /\ note.file_path \in DOMAIN disk
    /\ disk[note.file_path].decodes
    /\ disk[note.file_path].frontmatter.id = note.meta.id

\* the date and the sequence number of an id: what is before and after its last '-'
IdDate(id) == IF RSplitOnceDash(id) = <<>> THEN <<>> ELSE RSplitOnceDash(id)[1]

IdSeq(id) == IF RSplitOnceDash(id) = <<>> THEN <<>> ELSE RSplitOnceDash(id)[2]

IsDecimal(s) == s # <<>> /\ \A k \in 1..Len(s) : IsDigit(s[k])

RECURSIVE StripZeros(_)
StripZeros(s) == IF Len(s) > 1 /\ Head(s) = "0" THEN StripZeros(Tail(s)) ELSE s

\* a < b as decimal numbers of any length
DecimalLess(a, b) ==
    LET x == StripZeros(a)
        y == StripZeros(b)
    IN  Len(x) < Len(y) \/ (Len(x) = Len(y) /\ StrLess(x, y))

\* the two notes agree on everything but updated_at
SameButUpdatedAt(a, b) == a = [b EXCEPT !.meta.updated_at = a.meta.updated_at]

\* C1: when the rename of a save fails, the selected note's title, tags, body,
\* updated_at and location are what they were before the save, the old file is
\* there with its old content, and nothing was written at the new location.
C1_RenameFailureLeavesNote ==
    [][ (SaveStep /\ last'.result = "rename_failed") =>
          LET old == notes[selected_index]
              new == notes'[selected_index]
              to  == NewPath([old.meta EXCEPT !.title = DraftTitle])
          IN  /\ new.meta.title = old.meta.title
              /\ new.meta.tags = old.meta.tags
              /\ new.meta.updated_at = old.meta.updated_at
              /\ new.body = old.body
              /\ new.file_path = old.file_path
              /\ old.file_path \in DOMAIN disk =>
                    /\ old.file_path \in DOMAIN disk'
                    /\ disk'[old.file_path] = disk[old.file_path]
              /\ to \in DOMAIN disk' => (to \in DOMAIN disk /\ disk'[to] = disk[to])
      ]_vars

\* C2: when the write of a save fails, the live collection and the files on disk,
\* names and contents, are what they were before the save.
C2_WriteFailureLeavesAll ==
    [][ (SaveStep /\ last'.result = "write_failed") => (notes' = notes /\ disk' = disk)
      ]_vars

\* C3: as long as no operation has failed, every live note has a location at
\* which a file exists, and that file records the note's id.
C3_EveryNoteHasItsFile ==
    failures = 0 => \A i \in 1..Len(notes) : HasItsFile(notes[i])

\* C4: a save of a draft without a line that, trimmed, starts with "# " is
\* rejected: no file is created, renamed or written, and the collection and the
\* selection stay as they are, with or without a selected note.
C4_UntitledDraftRejected ==
    [][ (SaveStep /\ ~HasTitleLine(draft)) =>
          /\ last'.result = "empty_title"
          /\ notes' = notes
          /\ disk' = disk
          /\ selected_index' = selected_index
      ]_vars

\* reached: a save of the draft "#B" with a note selected has been rejected
C4_Witness ==
    /\ last.op = "save"
    /\ last.result = "empty_title"
    /\ last.selected
    /\ draft = << "#", "B" >>
    /\ notes # <<>>

C6_DeleteAllOrNothing ==
    [][ (DeleteStep /\ selected_index # None) =>
          \/ /\ last'.result = "remove_failed"
             /\ notes' = notes
             /\ selected_index' = selected_index
          \/ /\ last'.result = "ok"
             /\ Len(notes') = Len(notes) - 1
             /\ \A j \in 1..Len(notes') :
                   notes'[j] = IF j < selected_index THEN notes[j] ELSE notes[j + 1]
             /\ notes[selected_index].file_path \notin DOMAIN disk'
      ]_vars

\* reached: a delete has removed the first of two notes and the other one is live
C6_Witness ==
    /\ last.op = "delete"
    /\ last.result = "ok"
    /\ Len(notes) = 1
    /\ notes[1].meta.id \in { << "2026-11-04", "-", "0", "0", "1" >>,
                              << "2026-11-04", "-", "0", "0", "2" >> }

\* C7: the id a save gives to a new note is the id of no live note, and its
\* sequence number is above that of every live id of the same date.
C7_NextIdAboveAll ==
    [][ CreateStep =>
          /\ last'.new_id \notin IdsOf(notes)
          /\ \A id \in IdsOf(notes) :
                (IdDate(id) = IdDate(last'.new_id) /\ IsDecimal(IdSeq(id))) =>
                    DecimalLess(IdSeq(id), IdSeq(last'.new_id))
      ]_vars

\* C8: the id a save gives to a new note was never the id of a note before,
\* live or deleted.
C8_NoIdTwice == [][ CreateStep => last'.new_id \notin usedIds ]_vars

\* C9: every live note has the id and the created_at it was created or loaded with.
C9_IdAndCreatedAtKept ==
    \A i \in 1..Len(notes) :
        /\ notes[i].meta.id = notes[i].orig.id
        /\ notes[i].meta.created_at = notes[i].orig.created_at

\* reached: a note has been saved again at a later time under another title
C9_Witness ==
    /\ last.op = "save"
    /\ last.result = "ok"
    /\ last.selected
    /\ \E i \in 1..Len(notes) :
          /\ notes[i].meta.updated_at # notes[i].meta.created_at
          /\ notes[i].meta.title = << "A" >>
          /\ notes[i].body = << "#", " ", "A" >>
          /\ notes[i].orig.id = << "2026-11-04", "-", "2", "1", "4", "7", "4", "8", "3", "6", "4", "8" >>

\* C10: a successful save that directly follows a successful save of the same
\* selected note with the same draft changes nothing but updated_at: the notes
\* and their order, the selection and the file names stay.
C10_SecondSaveOnlyUpdatedAt ==
    [][ (/\ SaveStep
         /\ last'.result = "ok"
         /\ last.op = "save"
         /\ last.result = "ok"
         /\ last.selected) =>
          /\ selected_index' = selected_index
          /\ draft' = draft
          /\ Len(notes') = Len(notes)
          /\ \A i \in 1..Len(notes) : SameButUpdatedAt(notes'[i], notes[i])
          /\ DOMAIN disk' = DOMAIN disk
      ]_vars

\* reached: the second of two such saves, at a later time than the first
C10_Witness ==
    /\ last.op = "save"
    /\ last.result = "ok"
    /\ last.again
    /\ selected_index # None
    /\ notes[selected_index].meta.updated_at = to_rfc3339(MaxClock)
    /\ disk[notes[selected_index].file_path].frontmatter.updated_at = to_rfc3339(MaxClock)

\* what parse_note_file reads back from the file write_note_file makes of a note
ReadBack(note) ==
    parse_note_file(WriteFile(EmptyDir, note.file_path,
                              NoteFileContents(note.meta, note.body)),
                    note.file_path)

\* C11: writing a note and reading the file back gives the note's metadata and
\* its body with nothing but leading whitespace stripped: no character is added
\* to or removed from the end of the body.
C11_RoundTripKeepsBody ==
    \A i \in 1..Len(notes) :
        /\ ReadBack(notes[i]).meta = notes[i].meta
        /\ ReadBack(notes[i]).body = TrimStart(notes[i].body)

\* the paths of the notes, and of the diagnostics, of what load returns
LoadedPaths(app) == { app.notes[i].file_path : i \in 1..Len(app.notes) }

DiagnosedPaths(app) == { app.errors[i].path : i \in 1..Len(app.errors) }

\* C12: in a state that load returns on its directory, however read_dir lists
\* it, every .md file of the directory is either among the notes or among the
\* diagnostics, never both and never neither; when the directory cannot be
\* created or listed, there is no note and there is a diagnostic.
C12_LoadAccountsForEveryFile ==
    \A start \in Starts :
      \A entries \in Listed(start[1], start[2]) :
        LET app == load(start[1], start[2], entries)
        IN  (disk = start[1] /\ notes = app.notes /\ errors = app.errors) =>
              IF start[2] \in { "create_dir_fails", "read_dir_fails" }
              THEN notes = <<>> /\ errors # <<>>
              ELSE \A p \in DOMAIN disk :
                      HasMdExtension(p) =>
                          (p \in LoadedPaths(app)) # (p \in DiagnosedPaths(app))

(***************************************************************************)
(* backlinks_for and tag_cloud.  NotesApp::update calls neither; SpecLinked *)
(* is the program with a caller of both, started on a directory of two      *)
(* notes that link to each other.                                           *)
(***************************************************************************)
\* the text that format!(r"\[\[{}\]\]", regex::escape(title)) matches
LinkPattern(title) == << "[", "[" >> \o title \o << "]", "]" >>

\* regex.is_match(text) for a pattern that is one literal: a search from the left
RECURSIVE IsMatch(_, _)
IsMatch(pattern, text) ==
    IF Len(text) < Len(pattern) THEN FALSE
    ELSE IF StartsWith(text, pattern) THEN TRUE
    ELSE IsMatch(pattern, Tail(text))

\* BacklinksStep without the test of the note's own title
BacklinksStepWithSelf(links, note, title) ==
    IF IsMatch(LinkPattern(title), note.body)
    THEN Append(links, note.meta.title)
    ELSE links

\* one turn of the loop of backlinks_for
BacklinksStep(links, note, title) ==
    IF note.meta.title = title THEN links
    ELSE IF IsMatch(LinkPattern(title), note.body)
    THEN Append(links, note.meta.title)
    ELSE links

RECURSIVE BacklinksLoop(_, _, _)
BacklinksLoop(links, ns, title) ==
    IF ns = <<>> THEN links
    ELSE BacklinksLoop(BacklinksStep(links, Head(ns), title), Tail(ns), title)

backlinks_for(ns, title) == BacklinksLoop(<<>>, ns, title)

\* *tags.entry(tag).or_insert(0) += 1 on a BTreeMap: a function on its keys
CountTag(tags, tag) ==
    [k \in (DOMAIN tags) \cup { tag } |->
        IF k = tag THEN (IF tag \in DOMAIN tags THEN tags[tag] ELSE 0) + 1
        ELSE tags[k]]

\* the inner loop of tag_cloud: over the tags of one note
RECURSIVE CountTags(_, _)
CountTags(tags, list) ==
    IF list = <<>> THEN tags
    ELSE CountTags(CountTag(tags, Head(list)), Tail(list))

\* the outer loop of tag_cloud: over the notes
RECURSIVE TagCloudLoop(_, _)
TagCloudLoop(tags, ns) ==
    IF ns = <<>> THEN tags
    ELSE TagCloudLoop(CountTags(tags, Head(ns).meta.tags), Tail(ns))

tag_cloud(ns) == TagCloudLoop([k \in {} |-> 0], ns)

\* two notes: "A", dated after today, tagged a twice, with a link to itself and
\* one to "B"; "B", of today, with a link to "A"
LinkedPathA == << NOTES_DIR, "/", "2026-11-06", "-", "a", ".md" >>

LinkedFileA ==
    NoteFileContents(
        [id |-> << "2026-11-06", "-", "0", "0", "1" >>,
         title |-> << "A" >>,
         tags |-> << << "a" >>, << "a" >> >>,
         created_at |-> << "2026-11-06", "T", "00:00:00+00:00" >>,
         updated_at |-> << "2026-11-06", "T", "00:00:00+00:00" >>],
        << "[", "[", "A", "]", "]", "[", "[", "B", "]", "]" >>)

LinkedPathB == << NOTES_DIR, "/", "2026-11-04", "-", "b", ".md" >>

LinkedFileB ==
    NoteFileContents(
        [id |-> << "2026-11-04", "-", "0", "0", "1" >>,
         title |-> << "B" >>,
         tags |-> << << "a" >>, << "b" >> >>,
         created_at |-> << "2026-11-04", "T", "00:00:00+00:00" >>,
         updated_at |-> << "2026-11-04", "T", "00:00:00+00:00" >>],
        << "[", "[", "A", "]", "]" >>)

LinkedDir == WriteFile(WriteFile(EmptyDir, LinkedPathA, LinkedFileA), LinkedPathB, LinkedFileB)

\* what the user types in SpecLinked
LinkDrafts ==
    { << "#", " ", "A" >>,
      << "#", " ", "B", "\n", "[", "[", "A", "]", "]", "\n", "t", "a", "g", "s", ":", "b" >>,
      << "[", "[", "B", "]", "]" >> }

\* the titles backlinks_for is asked about
LinkTitles == { << "A" >>, << "B" >>, << >> }

\* history: the call of a function of the collection, its argument and its value
Returned(op, arg, result) ==
    [op |-> op, arg |-> arg, result |-> result, selected |-> selected_index # None,
     renamed |-> FALSE, new_id |-> <<>>, again |-> FALSE]

InitLinked ==
    \E entries \in Listings(LinkedDir) :
        LET app == load(LinkedDir, "ok", entries)
        IN  /\ notes = app.notes
            /\ selected_index = app.selected_index
            /\ draft = app.draft
            /\ sort_mode = app.sort_mode
            /\ errors = app.errors
            /\ disk = LinkedDir
            /\ clock = 1
            /\ last = Plain
            /\ usedIds = IdsOf(app.notes)
            /\ failures = 0

\* a call of self.backlinks_for(title): &self, so nothing of the app changes
Backlinks(title) ==
    /\ last' = Returned("backlinks_for", title, backlinks_for(notes, title))
    /\ UNCHANGED << notes, selected_index, draft, sort_mode, errors, disk, clock,
                    usedIds, failures >>

\* a call of self.tag_cloud()
TagCloud ==
    /\ last' = Returned("tag_cloud", <<>>, tag_cloud(notes))
    /\ UNCHANGED << notes, selected_index, draft, sort_mode, errors, disk, clock,
                    usedIds, failures >>

NextLinked ==
    \/ \E text \in LinkDrafts : EditDraft(text)
    \/ \E index \in 1..Len(notes) : SelectNote(index)
    \/ NewNote
    \/ save_current("ok", FALSE)
    \/ delete_current("ok")
    \/ \E title \in LinkTitles : Backlinks(title)
    \/ TagCloud

SpecLinked == InitLinked /\ [][NextLinked]_vars

\* text has pattern in it at some position
Contains(text, pattern) ==
    \E k \in 1..(Len(text) - Len(pattern) + 1) :
        SubSeq(text, k, k + Len(pattern) - 1) = pattern

\* the titles, in the order of ns, of the notes other than those titled title
\* whose body has [[title]] in it
LinkingTitles(ns, title) ==
    LET linking == SelectSeq(ns, LAMBDA n :
                       n.meta.title # title /\ Contains(n.body, LinkPattern(title)))
    IN  [i \in 1..Len(linking) |-> linking[i].meta.title]

\* C13: backlinks_for(T) returns the titles of the live notes whose body has the
\* text [[T]] in it and whose title is not T, in the order of the collection; T
\* itself is never among them, and the call leaves the collection as it is.
C13_BacklinksAreLinkingTitles ==
    [][ last'.op = "backlinks_for" =>
          /\ last'.result = LinkingTitles(notes, last'.arg)
          /\ \A i \in 1..Len(last'.result) : last'.result[i] # last'.arg
          /\ notes' = notes
      ]_vars

\* reached: backlinks_for("A") has returned "B" alone while the note "A" has
\* [[A]] in its own body
C13_Witness ==
    /\ last.op = "backlinks_for"
    /\ last.arg = << "A" >>
    /\ last.result = << << "B" >> >>
    /\ \E i \in 1..Len(notes) :
          notes[i].meta.title = << "A" >> /\ Contains(notes[i].body, LinkPattern(<< "A" >>))

\* the note carries the tag
Carries(note, tag) == \E k \in 1..Len(note.meta.tags) : note.meta.tags[k] = tag

\* the tags carried by some note
CarriedTags(ns) == UNION { { ns[i].meta.tags[k] : k \in 1..Len(ns[i].meta.tags) } : i \in 1..Len(ns) }

\* C14: tag_cloud maps every tag that some live note carries to the number of
\* live notes that carry it, a note counting once for a tag however often its
\* tag list repeats the tag, and has no other key.
C14_TagCloudCountsNotes ==
    [][ last'.op = "tag_cloud" =>
          last'.result =
              [tag \in CarriedTags(notes) |->
                  Cardinality({ i \in 1..Len(notes) : Carries(notes[i], tag) })]
      ]_vars

\* C15: the live collection is in the order of the sort mode, after load and
\* after every save, that of a new note and that of the selected note under a
\* new title alike (and in every other state): under Recent no note stands
\* before one created later, under Title none before one of a smaller title.
C15_OrderedBySortMode ==
    \A i, j \in 1..Len(notes) :
        i < j =>
            IF sort_mode = "Recent"
            THEN Instant(notes[i].meta.created_at) >= Instant(notes[j].meta.created_at)
            ELSE ~StrLess(notes[j].meta.title, notes[i].meta.title)

\* reached: two notes created at different times, the selected one just saved
\* under a new title
C15_Witness ==
    /\ last.op = "save"
    /\ last.result = "ok"
    /\ last.selected
    /\ last.renamed
    /\ Len(notes) = 2
    /\ notes[1].meta.created_at # notes[2].meta.created_at

\* C16: a successful save changes the saved note alone: every other live note
\* is in the collection afterwards with the metadata, body and location it had,
\* and the file at its location is there with the content it had.
C16_SaveLeavesOtherNotes ==
    [][ (SaveStep /\ last'.result = "ok") =>
          \A i \in 1..Len(notes) :
              i # selected_index =>
                  /\ \E j \in 1..Len(notes') : notes'[j] = notes[i]
                  /\ notes[i].file_path \in DOMAIN disk =>
                        /\ notes[i].file_path \in DOMAIN disk'
                        /\ disk'[notes[i].file_path] = disk[notes[i].file_path]
      ]_vars

\* C17: after a save that creates a note, the selection is the note with the id
\* the save allocated, also when another live note has the same title.
C17_NewNoteIsSelected ==
    [][ CreateStep =>
          /\ selected_index' # None
          /\ notes'[selected_index'].meta.id = last'.new_id
      ]_vars

\* C18: the selection is absent or the position of a live note.
C18_SelectionInRange ==
    selected_index = None \/ selected_index \in 1..Len(notes)

\* reached: one of two notes was selected, and a delete has left the other one,
\* created at the latest time, and no selection
C18_Witness ==
    /\ last.op = "delete"
    /\ last.result = "ok"
    /\ last.selected
    /\ Len(notes) = 1
    /\ selected_index = None
    /\ notes[1].meta.created_at = to_rfc3339(MaxClock)

(***************************************************************************)
(* parse_title_and_tags and slugify on the texts a user can type.          *)
(* SpecTags types a tags: line into the editor and SpecSlug a title, one    *)
(* character at a time, and each applies its function to the text.         *)
(***************************************************************************)
\* the user types at most MaxText characters
MaxText == 4

\* the drafts a tags: line is typed into, the line begun
TagStarts ==
    { << "t", "a", "g", "s", ":" >>,
      << "#", " ", "A", "\n", "T", "a", "g", "s", ":", " ", "[", "a", ",", " ", "b", "," >> }

\* the title slugify is given, before anything is typed
TitleStarts == { << >> }

TagChars == { "[", "]", ",", " ", "a", "A" }

TitleChars == { "T", "n", "o", "t", "e", "-", " ", "U+00E9" }

\* how many characters of the text were typed after its start
Typed(text, starts) ==
    LET start == CHOOSE s \in starts :
                     /\ StartsWith(text, s)
                     /\ \A r \in starts : StartsWith(text, r) => Len(r) <= Len(s)
    IN  Len(text) - Len(start)

\* the state load returns on an empty directory, with text in the editor
InitText(starts) ==
    /\ notes = <<>>
    /\ selected_index = None
    /\ draft \in starts
    /\ sort_mode = "Recent"
    /\ errors = <<>>
    /\ disk = EmptyDir
    /\ clock = 1
    /\ last = Plain
    /\ usedIds = {}
    /\ failures = 0

\* the user types one more character
TypeChar(c, starts) ==
    /\ Typed(draft, starts) < MaxText
    /\ draft' = Append(draft, c)
    /\ last' = Plain
    /\ UNCHANGED << notes, selected_index, sort_mode, errors, disk, clock,
                    usedIds, failures >>

\* parse_title_and_tags(&self.draft.body), as save_current calls it
ParseTitleAndTags ==
    /\ last' = Returned("parse_title_and_tags", draft, parse_title_and_tags(draft))
    /\ UNCHANGED << notes, selected_index, draft, sort_mode, errors, disk, clock,
                    usedIds, failures >>

\* slugify(&meta.title) with the text for the title
Slugify ==
    /\ last' = Returned("slugify", draft, slugify(draft))
    /\ UNCHANGED << notes, selected_index, draft, sort_mode, errors, disk, clock,
                    usedIds, failures >>

InitTags == InitText(TagStarts)

NextTags ==
    \/ \E c \in TagChars : TypeChar(c, TagStarts)
    \/ ParseTitleAndTags

SpecTags == InitTags /\ [][NextTags]_vars

InitSlug == InitText(TitleStarts)

NextSlug ==
    \/ \E c \in TitleChars : TypeChar(c, TitleStarts)
    \/ Slugify

SpecSlug == InitSlug /\ [][NextSlug]_vars

\* what follows the last ':' of the text: the list of its tags: line
TagList(text) == DropFirst(text, LastIndexOf(text, ":"))

\* the entries of a list: between the commas of the list without the brackets
\* around it, trimmed, the empty ones left out
Entries(list) ==
    LET inner  == StripSuffix(StripPrefix(Trim(list), "["), "]")
        pieces == Split(inner, ",")
    IN  { Trim(pieces[i]) : i \in 1..Len(pieces) } \ { <<>> }

\* C19: the tags save takes from the tags: line of a draft are the entries of
\* the line, each once, in ascending order.
C19_TagsAreSortedEntries ==
    [][ last'.op = "parse_title_and_tags" =>
          LET tags == last'.result.tags
          IN  /\ { tags[i] : i \in 1..Len(tags) } = Entries(TagList(last'.arg))
              /\ \A i, j \in 1..Len(tags) : i < j => StrLess(tags[i], tags[j])
      ]_vars

\* reached: the line Tags: [a, b, a] has given the tags a, b
C19_Witness ==
    /\ last.op = "parse_title_and_tags"
    /\ TagList(last.arg) = << " ", "[", "a", ",", " ", "b", ",", " ", "a", "]" >>
    /\ last.result.tags = << << "a" >>, << "b" >> >>
    /\ last.result.title = << "A" >>

\* the slug is lowercase alphanumeric characters and single '-', none at an end
WellFormedSlug(slug) ==
    /\ slug # <<>>
    /\ \A k \in 1..Len(slug) :
          \/ slug[k] = "-"
          \/ IsAsciiAlphanumeric(slug[k]) /\ ToLowercase(slug[k]) = slug[k]
    /\ slug[1] # "-"
    /\ slug[Len(slug)] # "-"
    /\ \A k \in 1..(Len(slug) - 1) : ~(slug[k] = "-" /\ slug[k + 1] = "-")

\* a letter or a digit, ASCII or not
IsAlphanumeric(c) == IsAsciiAlphanumeric(c) \/ c = "U+00E9"

\* the title with a space for every '-'
SpacesForDashes(title) == [k \in 1..Len(title) |-> IF title[k] = "-" THEN " " ELSE title[k]]

\* titles that differ from the title in letter case, or in the characters
\* between its words, have its slug
SlugOfVariants(title, slug) ==
    /\ slugify(ToLowercaseStr(title)) = slug
    /\ slugify(SpacesForDashes(title)) = slug

\* the title without the characters that are not ASCII alphanumeric at its ends
RECURSIVE CoreOf(_)
CoreOf(title) ==
    IF title = <<>> THEN title
    ELSE IF ~IsAsciiAlphanumeric(Head(title)) THEN CoreOf(Tail(title))
    ELSE IF ~IsAsciiAlphanumeric(title[Len(title)])
    THEN CoreOf(SubSeq(title, 1, Len(title) - 1))
    ELSE title

FallbackSlug == << "n", "o", "t", "e" >>

\* C20 as stated: the slug is well formed, it is "note" exactly when the title
\* has no alphanumeric character, and titles that differ only in letter case or
\* in the characters between words have the same slug.
C20_SlugFallbackOnlyWithoutAlnum ==
    [][ last'.op = "slugify" =>
          /\ WellFormedSlug(last'.result)
          /\ (last'.result = FallbackSlug) <=>
                (\A k \in 1..Len(last'.arg) : ~IsAlphanumeric(last'.arg[k]))
          /\ SlugOfVariants(last'.arg, last'.result)
      ]_vars

\* C20 amended: ... it is "note" exactly when the title has no ASCII
\* alphanumeric character or is the word "note", in any letter case, with
\* nothing but other characters around it.
C20_SlugFallbackOrWordNote ==
    [][ last'.op = "slugify" =>
          /\ WellFormedSlug(last'.result)
          /\ (last'.result = FallbackSlug) <=>
                \/ \A k \in 1..Len(last'.arg) : ~IsAsciiAlphanumeric(last'.arg[k])
                \/ ToLowercaseStr(CoreOf(last'.arg)) = FallbackSlug
          /\ SlugOfVariants(last'.arg, last'.result)
      ]_vars

\* reached: the title "T- e" has the slug "t-e"
C20_Witness ==
    /\ last.op = "slugify"
    /\ last.arg = << "T", "-", " ", "e" >>
    /\ last.result = << "t", "-", "e" >>

====
